---- MODULE Spec2Model ----
(***************************************************************************)
(* A state-machine model of starmap.py: generate_starmap, the handler of   *)
(* the "Start" button.  Text is a tuple of one-character strings, numbers  *)
(* are exact (integers, or decimals m * 10^-e), and each try-block or      *)
(* statement group of the handler is one action.                           *)
(***************************************************************************)
EXTENDS Integers, Sequences, FiniteSets, TLC

\* ------------------------------------------------------------------ bounds
\* longest text typed into the numeric field that takes any text
MaxLen == 2
\* number of presses of "Start" in a run of the two-build specification
MaxCalls == 2

\* ------------------------------------------------------- program constants
DPI == 500
MinMagnitude == 0
MaxMagnitude == 15

\* ------------------------------------------------------------------- text
Digits == {"0", "1", "2", "3", "4", "5", "6", "7", "8", "9"}
DigitVal(c) ==
    CASE c = "0" -> 0 [] c = "1" -> 1 [] c = "2" -> 2 [] c = "3" -> 3
      [] c = "4" -> 4 [] c = "5" -> 5 [] c = "6" -> 6 [] c = "7" -> 7
      [] c = "8" -> 8 [] c = "9" -> 9

\* the characters of the texts typed into that field
Chars == {"0", "1", "5", "-", ".", " ", "a"}

RECURSIVE Texts(_)
Texts(n) ==
    IF n = 0 THEN {<<>>}
    ELSE LET shorter == Texts(n - 1)
         IN  shorter \cup {Append(t, c) : t \in {u \in shorter : Len(u) = n - 1}, c \in Chars}

\* str.strip(): leading and trailing whitespace removed
Strip(s) ==
    LET solid == {i \in 1..Len(s) : s[i] # " "}
    IN  IF solid = {} THEN <<>>
        ELSE LET lo == CHOOSE i \in solid : \A j \in solid : i <= j
                 hi == CHOOSE i \in solid : \A j \in solid : j <= i
             IN  SubSeq(s, lo, hi)

RECURSIVE DigitsValue(_)
DigitsValue(s) ==
    IF s = <<>> THEN 0
    ELSE 10 * DigitsValue(SubSeq(s, 1, Len(s) - 1)) + DigitVal(s[Len(s)])

AllDigits(s) == \A i \in 1..Len(s) : s[i] \in Digits

ValueError == [ok |-> FALSE, err |-> "ValueError"]

\* int(text): surrounding whitespace, an optional sign, one or more digits
IntAcceptAll(text) ==
    LET t == Strip(text)
        signed == t # <<>> /\ t[1] \in {"+", "-"}
        body == IF signed THEN Tail(t) ELSE t
    IN  IF AllDigits(body)
        THEN [ok |-> TRUE, val |-> IF signed /\ t[1] = "-" THEN 0 - DigitsValue(body) ELSE DigitsValue(body)]
        ELSE ValueError

ParseInt(text) ==
    LET t == Strip(text)
        signed == t # <<>> /\ t[1] \in {"+", "-"}
        body == IF signed THEN Tail(t) ELSE t
    IN  IF body # <<>> /\ AllDigits(body)
        THEN [ok |-> TRUE, val |-> IF signed /\ t[1] = "-" THEN 0 - DigitsValue(body) ELSE DigitsValue(body)]
        ELSE ValueError

\* float(text) over Chars: whitespace, an optional sign, digits with at most one
\* point and at least one digit.  The value is the decimal m * 10^-e.
ParseFloat(text) ==
    LET t == Strip(text)
        signed == t # <<>> /\ t[1] \in {"+", "-"}
        body == IF signed THEN Tail(t) ELSE t
        points == {i \in 1..Len(body) : body[i] = "."}
        p == IF points = {} THEN Len(body) + 1 ELSE CHOOSE i \in points : TRUE
        whole == SubSeq(body, 1, p - 1)
        frac == SubSeq(body, p + 1, Len(body))
        mag == DigitsValue(whole \o frac)
    IN  IF Cardinality(points) <= 1 /\ AllDigits(whole) /\ AllDigits(frac)
           /\ Len(whole) + Len(frac) >= 1
        THEN [ok |-> TRUE,
              val |-> [m |-> IF signed /\ t[1] = "-" THEN 0 - mag ELSE mag, e |-> Len(frac)]]
        ELSE ValueError

\* --------------------------------------------------------------- decimals
\* [m, e] is the number m * 10^-e; comparisons avoid large products
RECURSIVE Pow10(_)
Pow10(n) == IF n = 0 THEN 1 ELSE 10 * Pow10(n - 1)

FloorDiv(a, b) == a \div b
CeilDiv(a, b) == 0 - ((0 - a) \div b)

DecLE(a, b) ==
    IF a.e >= b.e THEN CeilDiv(a.m, Pow10(a.e - b.e)) <= b.m
    ELSE a.m <= FloorDiv(b.m, Pow10(b.e - a.e))

DecOfInt(n) == [m |-> n, e |-> 0]

\* whole degrees of a decimal angle (the sky model below works in degrees)
Degrees(v) == FloorDiv(v.m, Pow10(v.e))

\* ------------------------------------------------------------ date and time
IsLeap(y) == (y % 4 = 0 /\ y % 100 # 0) \/ y % 400 = 0
DaysInMonth(y, m) ==
    IF m = 2 THEN (IF IsLeap(y) THEN 29 ELSE 28)
    ELSE IF m \in {4, 6, 9, 11} THEN 30 ELSE 31

RECURSIVE DaysBeforeMonth(_, _)
DaysBeforeMonth(y, m) == IF m = 1 THEN 0 ELSE DaysBeforeMonth(y, m - 1) + DaysInMonth(y, m - 1)

\* minutes from 0001-01-01 00:00 of a naive datetime
Minutes(dt) ==
    LET y1 == dt.Y - 1
        days == 365 * y1 + (y1 \div 4) - (y1 \div 100) + (y1 \div 400)
                + DaysBeforeMonth(dt.Y, dt.m) + (dt.d - 1)
    IN  (days * 24 + dt.H) * 60 + dt.M

\* number of consecutive digits of s from position i on
RECURSIVE DigitRun(_, _)
DigitRun(s, i) == IF i <= Len(s) /\ s[i] \in Digits THEN 1 + DigitRun(s, i + 1) ELSE 0

RECURSIVE SpaceRun(_, _)
SpaceRun(s, i) == IF i <= Len(s) /\ s[i] = " " THEN 1 + SpaceRun(s, i + 1) ELSE 0

Lit(s, i, c) == i <= Len(s) /\ s[i] = c

\* datetime.strptime(time, "%Y-%m-%d %H:%M"): %Y is four digits, the other
\* fields one or two, %d also a space and a digit, the blank of the format is
\* one or more spaces, nothing may remain, and the date must exist
Strptime(s) ==
    LET nY == DigitRun(s, 1)
        iM == 6
        nM == DigitRun(s, iM)
        iD0 == iM + nM + 1
        pad == IF Lit(s, iD0, " ") /\ DigitRun(s, iD0 + 1) = 1 THEN 1 ELSE 0
        iD == iD0 + pad
        nD == DigitRun(s, iD)
        iS == iD + nD
        nS == SpaceRun(s, iS)
        iH == iS + nS
        nH == DigitRun(s, iH)
        iN == iH + nH + 1
        nN == DigitRun(s, iN)
        shape == /\ nY = 4 /\ Lit(s, 5, "-")
                 /\ nM \in {1, 2} /\ Lit(s, iM + nM, "-")
                 /\ nD \in {1, 2} /\ nS >= 1
                 /\ nH \in {1, 2} /\ Lit(s, iH + nH, ":")
                 /\ nN \in {1, 2} /\ iN + nN = Len(s) + 1
        dt == [Y |-> DigitsValue(SubSeq(s, 1, 4)),
               m |-> DigitsValue(SubSeq(s, iM, iM + nM - 1)),
               d |-> DigitsValue(SubSeq(s, iD, iD + nD - 1)),
               H |-> DigitsValue(SubSeq(s, iH, iH + nH - 1)),
               M |-> DigitsValue(SubSeq(s, iN, iN + nN - 1))]
    IN  IF shape /\ dt.Y >= 1 /\ dt.m \in 1..12 /\ dt.d >= 1 /\ (pad = 0 \/ dt.d <= 9)
           /\ dt.H <= 23 /\ dt.M <= 59 /\ dt.d <= DaysInMonth(dt.Y, dt.m)
        THEN [ok |-> TRUE, val |-> dt]
        ELSE ValueError

\* ---------------------------------------------------------------- timezones
\* The zone data of the model world: one zone with daylight saving (local
\* clocks skip 03:00-03:59 on 2024-03-31 and repeat 03:00-03:59 on 2024-10-27)
\* and one without; every other coordinate has no zone.
NoZone == "None"
Zones ==
    { [name |-> "Europe/Bucharest", west |-> 20, east |-> 30, south |-> 43, north |-> 49,
       offset |-> 120,
       gap |-> [Y |-> 2024, m |-> 3, d |-> 31, H |-> 3, M |-> 0],
       fold |-> [Y |-> 2024, m |-> 10, d |-> 27, H |-> 3, M |-> 0]],
      [name |-> "Africa/Accra", west |-> -4, east |-> 2, south |-> 4, north |-> 12,
       offset |-> 0,
       gap |-> [Y |-> 1, m |-> 1, d |-> 1, H |-> 0, M |-> 0],
       fold |-> [Y |-> 1, m |-> 1, d |-> 1, H |-> 0, M |-> 0]] }

HasDst(z) == z.gap.Y # 1

InBounds(lng, lat) ==
    /\ DecLE(DecOfInt(-180), lng) /\ DecLE(lng, DecOfInt(180))
    /\ DecLE(DecOfInt(-90), lat) /\ DecLE(lat, DecOfInt(90))

\* TimezoneFinder().timezone_at(lng, lat): ValueError for a coordinate off the
\* globe, None where no zone polygon holds the point
TimezoneAt(lng, lat) ==
    IF ~InBounds(lng, lat) THEN ValueError
    ELSE LET here == {z \in Zones : /\ z.west <= Degrees(lng) /\ Degrees(lng) < z.east
                                    /\ z.south <= Degrees(lat) /\ Degrees(lat) < z.north}
         IN  [ok |-> TRUE, val |-> IF here = {} THEN NoZone ELSE (CHOOSE z \in here : TRUE).name]

ZoneNamed(n) == CHOOSE z \in Zones : z.name = n

\* timezone(name).localize(dt, is_dst=None).astimezone(utc), as minutes from
\* 0001-01-01 UTC; a local time that does not exist or exists twice raises
LocalizeToUtc(name, dt) ==
    LET z == ZoneNamed(name)
        t == Minutes(dt)
        g == Minutes(z.gap)
        f == Minutes(z.fold)
    IN  IF ~HasDst(z) THEN [ok |-> TRUE, val |-> t - z.offset]
        ELSE IF (g <= t /\ t < g + 60) \/ (f <= t /\ t < f + 60)
             THEN [ok |-> FALSE, err |-> "InvalidTimeError"]
        ELSE IF g + 60 <= t /\ t < f THEN [ok |-> TRUE, val |-> t - z.offset - 60]
        ELSE [ok |-> TRUE, val |-> t - z.offset]

\* ------------------------------------------------------------ star catalog
\* A magnitude is <<v>>, v in tenths of a magnitude, or NaN.  Catalog
\* magnitudes are multiples of 2.5 so that 10^(magnitude / -2.5) is exact.
NaN == <<>>
IsNaN(v) == v = <<>>

SkyStars ==
    [i \in {11, 12, 13, 14, 15} |->
        CASE i = 11 -> [ra |-> 100, dec |-> 45, magnitude |-> <<25>>]
          [] i = 12 -> [ra |-> 130, dec |-> 60, magnitude |-> <<50>>]
          [] i = 13 -> [ra |-> 160, dec |-> 30, magnitude |-> <<100>>]
          [] i = 14 -> [ra |-> 190, dec |-> 50, magnitude |-> <<175>>]
          [] i = 15 -> [ra |-> 220, dec |-> 40, magnitude |-> NaN]]

BrightStars ==
    [i \in {21, 22, 23} |->
        CASE i = 21 -> [ra |-> 101, dec |-> 10, magnitude |-> <<-25>>]
          [] i = 22 -> [ra |-> 95, dec |-> 5, magnitude |-> <<0>>]
          [] i = 23 -> [ra |-> 110, dec |-> 20, magnitude |-> <<150>>]]

SkyCatalog ==
    [stars |-> SkyStars,
     constellations |-> << [name |-> "Tri", edges |-> << <<11, 12>>, <<12, 13>> >>],
                           [name |-> "Lin", edges |-> << <<13, 14>> >>] >>]

BrightCatalog ==
    [stars |-> BrightStars,
     constellations |-> << [name |-> "CMa", edges |-> << <<21, 22>>, <<22, 23>>, <<23, 21>> >>] >>]

\* a constellation file with an edge to a star the table does not hold
BrokenCatalog ==
    [stars |-> SkyStars,
     constellations |-> << [name |-> "Tri", edges |-> << <<11, 12>>, <<12, 13>> >>],
                           [name |-> "Gap", edges |-> << <<13, 99>> >>] >>]

Catalogs == {SkyCatalog, BrightCatalog, BrokenCatalog}

\* every edge of the catalog names two stars of the catalog
Intact(cat) ==
    \A k \in 1..Len(cat.constellations) :
        \A j \in 1..Len(cat.constellations[k].edges) :
            /\ cat.constellations[k].edges[j][1] \in DOMAIN cat.stars
            /\ cat.constellations[k].edges[j][2] \in DOMAIN cat.stars

\* hipparcos.load_dataframe: a new table, one row per catalog star
load_dataframe(cat) == [i \in DOMAIN cat.stars |-> cat.stars[i]]

\* stellarium.parse_constellations: the list of (name, edges)
parse_constellations(cat) == cat.constellations

\* ---------------------------------------------------------------- sky model
\* The stereographic projection centred on the observer's zenith, in whole
\* degrees: the zenith's right ascension turns one degree every four minutes.
ZenithRa(lng, t) == (Degrees(lng) + (t \div 4)) % 360

ProjectX(ra, lng, t) == ((ra - ZenithRa(lng, t) + 180) % 360) - 180
ProjectY(dec, la) == dec - Degrees(la)

\* stars["x"], stars["y"] = projection(star_positions): both columns are
\* assigned for every row of the table
AttachXY(tbl, la, lng, t) ==
    [i \in DOMAIN tbl |->
        [ra |-> tbl[i].ra, dec |-> tbl[i].dec, magnitude |-> tbl[i].magnitude,
         x |-> ProjectX(tbl[i].ra, lng, t), y |-> ProjectY(tbl[i].dec, la)]]

\* [edge for name, edges in constellations for edge in edges]
RECURSIVE Flatten(_)
Flatten(cs) == IF cs = <<>> THEN <<>> ELSE Head(cs).edges \o Flatten(Tail(cs))

Star1(es) == [k \in 1..Len(es) |-> es[k][1]]
Star2(es) == [k \in 1..Len(es) |-> es[k][2]]

\* ------------------------------------------------------ filter and markers
\* stars.magnitude <= max_magnitude: the mask, as the set of ids it keeps
\* (a comparison with NaN is False)
BrightStrict(tbl, max) ==
    {i \in DOMAIN tbl : ~IsNaN(tbl[i].magnitude) /\ tbl[i].magnitude[1] < 10 * max}

Bright(tbl, max) ==
    {i \in DOMAIN tbl : ~IsNaN(tbl[i].magnitude) /\ tbl[i].magnitude[1] <= 10 * max}

\* star_scaling * 10 ** (magnitude / -2.5)
Scaled(scaling, mag) == [m |-> scaling, e |-> mag[1] \div 25]

ClipLower(v, a_max) == IF DecLE(v, DecOfInt(a_max)) THEN DecOfInt(a_max) ELSE v

\* clip(marker_size, a_min=None, a_max=star_limit)
Clip(v, a_max) == IF DecLE(v, DecOfInt(a_max)) THEN v ELSE DecOfInt(a_max)

MarkerSize(scaling, mag, limit) == Clip(Scaled(scaling, mag), limit)

AmaxRaises(vals) ==
    IF vals = {} THEN [ok |-> FALSE, err |-> "ValueError"]
    ELSE [ok |-> TRUE,
          val |-> <<CHOOSE v \in vals : \A w \in vals : DecLE(w, v)>>]

\* amax(series) of a pandas Series: the largest value that is not NaN, NaN
\* when there is none; vals are the values that are not NaN
Amax(vals) ==
    [ok |-> TRUE,
     val |-> IF vals = {} THEN NaN
             ELSE <<CHOOSE v \in vals : \A w \in vals : DecLE(w, v)>>]

MagValues(tbl, ids) ==
    {[m |-> tbl[i].magnitude[1], e |-> 1] : i \in {j \in ids : ~IsNaN(tbl[j].magnitude)}}

\* stars[["x", "y"]].loc[ids].values: KeyError when an id is not in the index
Loc(tbl, ids) ==
    IF \A k \in 1..Len(ids) : ids[k] \in DOMAIN tbl
    THEN [ok |-> TRUE, val |-> [k \in 1..Len(ids) |-> <<tbl[ids[k]].x, tbl[ids[k]].y>>]]
    ELSE [ok |-> FALSE, err |-> "KeyError"]

\* rollaxis(array([xy1, xy2]), 1): one (start, end) pair per edge
SegmentsSame(xy1, xy2) == [k \in 1..Len(xy1) |-> <<xy1[k], xy1[k]>>]

Segments(xy1, xy2) == [k \in 1..Len(xy1) |-> <<xy1[k], xy2[k]>>]

\* -------------------------------------------------------------------- state
VARIABLES
    catalog,        \* the catalog and constellation files api.load reads
    files,          \* the file system: path -> <<>> or <<image>>
    figures,        \* pyplot's open figures, the newest last
    calls,          \* presses of "Start" so far
    prev,           \* the last drawing handed to savefig, with its arguments
    pc,             \* the statement generate_starmap is at
    args,           \* the arguments of the call
    messages,       \* the message boxes shown by the call
    exception,      \* the exception that left the call, "" if none
    lat, long, star_scaling, max_magnitude, dpi, star_limit,
    loaded,         \* the ephemeris and the catalog were loaded by the call
    stars, constellations, utc_dt, edges,
    bright_stars, marker_size, lines_xy,
    stdout          \* the values printed by the call

world == <<catalog, files, figures, calls, prev>>
ctl == <<pc, args, messages, exception>>
parsed == <<lat, long, star_scaling, max_magnitude, dpi, star_limit>>
data == <<loaded, stars, constellations, utc_dt, edges>>
drawn == <<bright_stars, marker_size, lines_xy, stdout>>
vars == <<world, ctl, parsed, data, drawn>>

EmptyTable == [i \in {} |-> 0]
Terminal == {"returned", "raised", "done"}

Paths == {"starmap.png", "/missing/starmap.png"}
\* the paths savefig can open for writing
Writable == {"starmap.png"}

LatMsg == "The latitude isn't a valid number."
LongMsg == "The longitude isn't a valid number."
ScalingMsg == "The maximum star size isn't a valid integer number."
MagnitudeMsg == "The maximum magnitude isn't a valid integer number from 0 to 15."
DpiMsg == "The DPI isn't a valid integer number."
LimitMsg == "The star size limit isn't a valid integer number."
DoneMsg == "Done!"

\* ------------------------------------------------------------------- inputs
T_45_5 == <<"4", "5", ".", "5">>
T_25 == <<"2", "5">>
T_5_5 == <<"5", ".", "5">>
T_m0_2 == <<"-", "0", ".", "2">>
T_10 == <<"1", "0">>
T_95 == <<"9", "5">>
T_0 == <<"0">>
T_abc == <<"a", "b", "c">>
T_100 == <<"1", "0", "0">>
T_m100 == <<"-", "1", "0", "0">>
T_400 == <<"4", "0", "0">>
T_5 == <<"5">>
T_300 == <<"3", "0", "0">>
T_500 == <<"5", "0", "0">>
T_0sp == <<"0", " ">>
T_5sp == <<"5", " ">>
T_15 == <<"1", "5">>
T_1_5 == <<"1", ".", "5">>
T_16 == <<"1", "6">>
\* "2024-06-01 21:00"
T_June == <<"2", "0", "2", "4", "-", "0", "6", "-", "0", "1", " ", "2", "1", ":", "0", "0">>
\* "2024-03-31 03:30", skipped by the Bucharest clocks
T_Gap == <<"2", "0", "2", "4", "-", "0", "3", "-", "3", "1", " ", "0", "3", ":", "3", "0">>
\* "2024-06-31 21:00", no such day
T_NoDay == <<"2", "0", "2", "4", "-", "0", "6", "-", "3", "1", " ", "2", "1", ":", "0", "0">>
\* "01/06/2024 21:00"
T_Slash == <<"0", "1", "/", "0", "6", "/", "2", "0", "2", "4", " ", "2", "1", ":", "0", "0">>

Style ==
    [constellation_color |-> "#ffffff", constellation_width |-> "0.3",
     bg_color |-> "#000000", bg_alpha |-> "1.0", star_color |-> "#ffffff"]

Args(uc, time, la, lo, sc, mm, out, d, lim) ==
    [use_constellations |-> uc,
     constellation_color |-> Style.constellation_color,
     constellation_width |-> Style.constellation_width,
     bg_color |-> Style.bg_color, bg_alpha |-> Style.bg_alpha,
     star_color |-> Style.star_color,
     time |-> time, lat |-> la, long |-> lo, star_scaling |-> sc,
     max_magnitude |-> mm, output |-> out, dpi |-> d, star_limit |-> lim]

\* one press of "Start" with every field valid or plainly invalid, and one of
\* the six numeric fields replaced by any text of at most MaxLen characters
TextFields == {"lat", "long", "star_scaling", "max_magnitude", "dpi", "star_limit"}
ValidationArgs ==
    LET base == {Args(TRUE, T_June, la, lo, sc, mm, "starmap.png", d, lim) :
                    la \in {T_45_5, T_abc}, lo \in {T_25, T_abc}, sc \in {T_100, T_1_5},
                    mm \in {T_5sp, T_16}, d \in {T_300, T_abc}, lim \in {T_400, T_1_5}}
    IN  {[b EXCEPT ![f] = t] : b \in base, f \in TextFields, t \in Texts(MaxLen)}

\* one build with valid numeric fields
BuildArgs ==
    {Args(uc, time, loc[1], loc[2], sc, mm, out, d, lim) :
        uc \in BOOLEAN, time \in {T_June, T_Gap, T_NoDay, T_Slash},
        loc \in {<<T_45_5, T_25>>, <<T_5_5, T_m0_2>>, <<T_10, T_10>>, <<T_95, T_0>>},
        sc \in {T_100, T_m100, T_0}, mm \in {T_0sp, T_5sp, T_15},
        out \in Paths, d \in {T_300, T_500}, lim \in {T_400, T_5}}

\* the builds of a run that presses "Start" more than once
RepeatArgs ==
    {Args(uc, T_June, loc[1], loc[2], T_100, mm, out, T_300, T_400) :
        uc \in BOOLEAN, loc \in {<<T_45_5, T_25>>, <<T_5_5, T_m0_2>>},
        mm \in {T_5sp, T_15}, out \in Paths}

\* --------------------------------------------------------------------- Init
Fresh ==
    /\ lat = DecOfInt(0) /\ long = DecOfInt(0)
    /\ star_scaling = 0 /\ max_magnitude = 0 /\ dpi = 0 /\ star_limit = 0
    /\ loaded = FALSE /\ stars = EmptyTable /\ constellations = <<>>
    /\ utc_dt = 0 /\ edges = <<>>
    /\ bright_stars = {} /\ marker_size = EmptyTable /\ lines_xy = <<>>
    /\ stdout = <<>>

InitWith(cats) ==
    /\ catalog \in cats
    /\ files = [p \in Paths |-> <<>>]
    /\ figures = <<>>
    /\ calls = 0
    /\ prev = <<>>
    /\ pc = "idle" /\ args = Args(FALSE, <<>>, <<>>, <<>>, <<>>, <<>>, "starmap.png", <<>>, <<>>)
    /\ messages = <<>> /\ exception = ""
    /\ Fresh

Init == InitWith(Catalogs)
InitValidation == InitWith({SkyCatalog})

\* ------------------------------------------------------------------ actions
\* the "Start" button: generate_starmap is entered with the form's values
Call(a) ==
    /\ calls' = calls + 1
    /\ pc' = "lat" /\ args' = a /\ messages' = <<>> /\ exception' = ""
    /\ lat' = DecOfInt(0) /\ long' = DecOfInt(0)
    /\ star_scaling' = 0 /\ max_magnitude' = 0 /\ dpi' = 0 /\ star_limit' = 0
    /\ loaded' = FALSE /\ stars' = EmptyTable /\ constellations' = <<>>
    /\ utc_dt' = 0 /\ edges' = <<>>
    /\ bright_stars' = {} /\ marker_size' = EmptyTable /\ lines_xy' = <<>>
    /\ stdout' = <<>>
    /\ UNCHANGED <<catalog, files, figures, prev>>

Return(msg) == pc' = "returned" /\ messages' = Append(messages, msg) /\ UNCHANGED <<args, exception>>
Raise(err) == pc' = "raised" /\ exception' = err /\ UNCHANGED <<args, messages>>
Goto(l) == pc' = l /\ UNCHANGED <<args, messages, exception>>

ParseLat ==
    /\ pc = "lat"
    /\ LET r == ParseFloat(args.lat)
       IN  IF r.ok THEN lat' = r.val /\ Goto("long")
           ELSE Return(LatMsg) /\ UNCHANGED lat
    /\ UNCHANGED <<world, long, star_scaling, max_magnitude, dpi, star_limit, data, drawn>>

ParseLong ==
    /\ pc = "long"
    /\ LET r == ParseFloat(args.long)
       IN  IF r.ok THEN long' = r.val /\ Goto("star_scaling")
           ELSE Return(LongMsg) /\ UNCHANGED long
    /\ UNCHANGED <<world, lat, star_scaling, max_magnitude, dpi, star_limit, data, drawn>>

ParseScaling ==
    /\ pc = "star_scaling"
    /\ LET r == ParseInt(args.star_scaling)
       IN  IF r.ok THEN star_scaling' = r.val /\ Goto("max_magnitude")
           ELSE Return(ScalingMsg) /\ UNCHANGED star_scaling
    /\ UNCHANGED <<world, lat, long, max_magnitude, dpi, star_limit, data, drawn>>

OutOfRangeTight(v) == v <= MinMagnitude \/ v >= MaxMagnitude

\* if max_magnitude < 0 or max_magnitude > 15: raise ValueError
OutOfRange(v) == v < MinMagnitude \/ v > MaxMagnitude

\* the assignment is made before the range is checked
ParseMagnitude ==
    /\ pc = "max_magnitude"
    /\ LET r == ParseInt(args.max_magnitude)
       IN  IF r.ok
           THEN /\ max_magnitude' = r.val
                /\ IF OutOfRange(r.val) THEN Return(MagnitudeMsg) ELSE Goto("dpi")
           ELSE Return(MagnitudeMsg) /\ UNCHANGED max_magnitude
    /\ UNCHANGED <<world, lat, long, star_scaling, dpi, star_limit, data, drawn>>

ParseDpi ==
    /\ pc = "dpi"
    /\ LET r == ParseInt(args.dpi)
       IN  IF r.ok THEN dpi' = r.val /\ Goto("star_limit")
           ELSE Return(DpiMsg) /\ UNCHANGED dpi
    /\ UNCHANGED <<world, lat, long, star_scaling, max_magnitude, star_limit, data, drawn>>

ParseLimit ==
    /\ pc = "star_limit"
    /\ LET r == ParseInt(args.star_limit)
       IN  IF r.ok THEN star_limit' = r.val /\ Goto("load")
           ELSE Return(LimitMsg) /\ UNCHANGED star_limit
    /\ UNCHANGED <<world, lat, long, star_scaling, max_magnitude, dpi, data, drawn>>

\* api.load of the ephemeris, the star table and the constellations
Load ==
    /\ pc = "load"
    /\ loaded' = TRUE
    /\ stars' = load_dataframe(catalog)
    /\ constellations' = parse_constellations(catalog)
    /\ Goto("time")
    /\ UNCHANGED <<world, parsed, utc_dt, edges, drawn>>

\* the UTC instant of the local time: timezone_at, strptime, timezone(),
\* localize and astimezone, in the order the handler calls them
ResolveUtc(time, lng, la) ==
    LET tz == TimezoneAt(lng, la)
        dt == Strptime(time)
    IN  IF ~tz.ok THEN tz
        ELSE IF ~dt.ok THEN dt
        ELSE IF tz.val = NoZone THEN [ok |-> FALSE, err |-> "UnknownTimeZoneError"]
        ELSE LocalizeToUtc(tz.val, dt.val)

ResolveTime ==
    /\ pc = "time"
    /\ LET r == ResolveUtc(args.time, long, lat)
       IN  IF r.ok THEN utc_dt' = r.val /\ Goto("project")
           ELSE Raise(r.err) /\ UNCHANGED utc_dt
    /\ UNCHANGED <<world, parsed, loaded, stars, constellations, edges, drawn>>

Project ==
    /\ pc = "project"
    /\ stars' = AttachXY(stars, lat, long, utc_dt)
    /\ Goto("edges")
    /\ UNCHANGED <<world, parsed, loaded, constellations, utc_dt, edges, drawn>>

Edges ==
    /\ pc = "edges"
    /\ edges' = Flatten(constellations)
    /\ Goto("filter")
    /\ UNCHANGED <<world, parsed, loaded, stars, constellations, utc_dt, drawn>>

\* the mask, the marker sizes and the three values printed on the way
Filter ==
    /\ pc = "filter"
    /\ LET mask == Bright(stars, max_magnitude)
           before == Amax(MagValues(stars, DOMAIN stars))
           after == Amax(MagValues(stars, mask))
           raw == [i \in mask |-> Scaled(star_scaling, stars[i].magnitude)]
           scaled == Amax({raw[i] : i \in mask})
       IN  IF ~before.ok THEN Raise(before.err) /\ UNCHANGED <<bright_stars, marker_size, stdout>>
           ELSE IF ~after.ok
           THEN /\ Raise(after.err) /\ bright_stars' = mask /\ stdout' = <<before.val>>
                /\ UNCHANGED marker_size
           ELSE IF ~scaled.ok
           THEN /\ Raise(scaled.err) /\ bright_stars' = mask /\ marker_size' = raw
                /\ stdout' = <<before.val, after.val>>
           ELSE /\ bright_stars' = mask
                /\ marker_size' = [i \in mask |-> MarkerSize(star_scaling, stars[i].magnitude, star_limit)]
                /\ stdout' = <<before.val, after.val, scaled.val>>
                /\ Goto("scatter")
    /\ UNCHANGED <<world, parsed, data, lines_xy>>

SubplotsReuse(figs, face) ==
    IF figs = <<>> THEN <<[facecolor |-> face, artists |-> <<>>]>> ELSE figs

\* subplots(): a new, empty figure becomes the current one
Subplots(figs, face) == Append(figs, [facecolor |-> face, artists |-> <<>>])

AddArtist(figs, a) ==
    [figs EXCEPT ![Len(figs)] = [@ EXCEPT !.artists = Append(@, a)]]

Scatter ==
    /\ pc = "scatter"
    /\ figures' = AddArtist(Subplots(figures, <<args.bg_color, args.bg_alpha>>),
                            [kind |-> "scatter",
                             xy |-> [i \in bright_stars |-> <<stars[i].x, stars[i].y>>],
                             s |-> marker_size,
                             color |-> args.star_color])
    /\ Goto("lines")
    /\ UNCHANGED <<catalog, files, calls, prev, parsed, data, drawn>>

\* both coordinate lookups come before the test of use_constellations
Lines ==
    /\ pc = "lines"
    /\ LET xy1 == Loc(stars, Star1(edges))
           xy2 == Loc(stars, Star2(edges))
       IN  IF ~xy1.ok THEN Raise(xy1.err) /\ UNCHANGED <<lines_xy, figures>>
           ELSE IF ~xy2.ok THEN Raise(xy2.err) /\ UNCHANGED <<lines_xy, figures>>
           ELSE /\ lines_xy' = Segments(xy1.val, xy2.val)
                /\ figures' = IF args.use_constellations
                              THEN AddArtist(figures,
                                             [kind |-> "lines", segments |-> lines_xy',
                                              colors |-> args.constellation_color,
                                              linewidths |-> args.constellation_width])
                              ELSE figures
                /\ Goto("save")
    /\ UNCHANGED <<catalog, files, calls, prev, parsed, data, bright_stars, marker_size, stdout>>

\* fig.savefig(output, ..., dpi=DPI)
SaveDpi(requested) == DPI

\* savefig writes the figure or raises, close(fig) follows a successful write
Save ==
    /\ pc = "save"
    /\ prev' = <<[args |-> args, artists |-> figures[Len(figures)].artists]>>
    /\ IF args.output \in Writable
       THEN /\ files' = [files EXCEPT ![args.output] =
                            <<[figure |-> figures[Len(figures)], dpi |-> SaveDpi(dpi)]>>]
            /\ figures' = SubSeq(figures, 1, Len(figures) - 1)
            /\ Goto("ok")
       ELSE Raise("OSError") /\ UNCHANGED <<files, figures>>
    /\ UNCHANGED <<catalog, calls, parsed, data, drawn>>

Confirm ==
    /\ pc = "ok"
    /\ pc' = "done" /\ messages' = Append(messages, DoneMsg)
    /\ UNCHANGED <<args, exception, world, parsed, data, drawn>>

Steps ==
    \/ ParseLat \/ ParseLong \/ ParseScaling \/ ParseMagnitude \/ ParseDpi \/ ParseLimit
    \/ Load \/ ResolveTime \/ Project \/ Edges \/ Filter \/ Scatter \/ Lines \/ Save
    \/ Confirm

\* one call, any text in one numeric field
StartValidation == pc = "idle" /\ \E a \in ValidationArgs : Call(a)
\* one call, valid numeric fields
StartBuild == pc = "idle" /\ \E a \in BuildArgs : Call(a)
\* up to MaxCalls calls, one after the other
StartAgain == pc \in {"idle"} \cup Terminal /\ calls < MaxCalls /\ \E a \in RepeatArgs : Call(a)

Next == StartBuild \/ Steps
Spec == Init /\ [][Next]_vars

NextValidation == StartValidation \/ Steps
SpecValidation == InitValidation /\ [][NextValidation]_vars

NextRepeat == StartAgain \/ Steps
SpecRepeat == Init /\ [][NextRepeat]_vars

\* ============================================================ properties
\* What counts as valid text, stated on the text itself: blanks around an
\* optional sign and a body.
Core(s, i, j) == /\ \A k \in 1..(i - 1) : s[k] = " "
                 /\ \A k \in (j + 1)..Len(s) : s[k] = " "
                 /\ s[i] # " " /\ s[j] # " "
Unsigned(s, i, j) == IF s[i] \in {"+", "-"} THEN SubSeq(s, i + 1, j) ELSE SubSeq(s, i, j)

IsIntText(s) ==
    \E i \in 1..Len(s) : \E j \in i..Len(s) :
        /\ Core(s, i, j)
        /\ LET b == Unsigned(s, i, j) IN Len(b) >= 1 /\ \A k \in 1..Len(b) : b[k] \in Digits

IsFloatText(s) ==
    \E i \in 1..Len(s) : \E j \in i..Len(s) :
        /\ Core(s, i, j)
        /\ LET b == Unsigned(s, i, j)
           IN  /\ \A k \in 1..Len(b) : b[k] \in Digits \cup {"."}
               /\ Cardinality({k \in 1..Len(b) : b[k] = "."}) <= 1
               /\ \E k \in 1..Len(b) : b[k] \in Digits

Numeral(n) ==
    LET d == [k \in 0..9 |-> CHOOSE c \in Digits : DigitVal(c) = k]
    IN  IF n < 10 THEN <<d[n]>> ELSE <<d[n \div 10], d[n % 10]>>

\* the text is a numeral of 0..15, with leading zeros or not, "-" only before zero
IsMagnitudeText(s) ==
    \E i \in 1..Len(s) : \E j \in i..Len(s) :
        /\ Core(s, i, j)
        /\ LET b == Unsigned(s, i, j)
           IN  \E n \in 0..15 : \E z \in 0..Len(b) :
                   /\ \A k \in 1..z : b[k] = "0"
                   /\ SubSeq(b, z + 1, Len(b)) = Numeral(n)
                   /\ (s[i] = "-" => n = 0)

FieldOrder == <<"lat", "long", "star_scaling", "max_magnitude", "dpi", "star_limit">>
FieldValid(a, f) ==
    CASE f = "lat" -> IsFloatText(a.lat)
      [] f = "long" -> IsFloatText(a.long)
      [] f = "star_scaling" -> IsIntText(a.star_scaling)
      [] f = "max_magnitude" -> IsMagnitudeText(a.max_magnitude)
      [] f = "dpi" -> IsIntText(a.dpi)
      [] f = "star_limit" -> IsIntText(a.star_limit)
FieldMsg(f) ==
    CASE f = "lat" -> LatMsg [] f = "long" -> LongMsg [] f = "star_scaling" -> ScalingMsg
      [] f = "max_magnitude" -> MagnitudeMsg [] f = "dpi" -> DpiMsg [] f = "star_limit" -> LimitMsg
InvalidFields(a) == {k \in 1..Len(FieldOrder) : ~FieldValid(a, FieldOrder[k])}
FirstInvalid(a) == CHOOSE k \in InvalidFields(a) : \A j \in InvalidFields(a) : k <= j
NothingWritten == \A p \in Paths : files[p] = <<>>

\* C1: a call with an invalid numeric field shows exactly one error message,
\* the one of the first invalid field in the order latitude, longitude,
\* star_scaling, max_magnitude, dpi, star_size_limit, and returns at that
\* field: nothing is loaded, nothing is projected or drawn, no file is written.
C1_FirstInvalidFieldReported ==
    (pc # "idle" /\ InvalidFields(args) # {}) =>
        LET k == FirstInvalid(args)
        IN  /\ pc \in {FieldOrder[j] : j \in 1..k} \cup {"returned"}
            /\ pc = "returned" => messages = <<FieldMsg(FieldOrder[k])>>
            /\ pc # "returned" => messages = <<>>
            /\ ~loaded /\ stars = EmptyTable /\ figures = <<>> /\ NothingWritten

C1_Witness ==
    /\ pc = "returned" /\ messages = <<DpiMsg>>
    /\ args.dpi = <<"-">> /\ InvalidFields(args) = {5, 6}

\* C4: max_magnitude is accepted exactly when its text is an integer of 0..15:
\* a call that goes on past the field had such a text, and a call that shows
\* the max_magnitude error did not.
PastMagnitude ==
    \/ pc \in {"dpi", "star_limit", "load", "time", "project", "edges", "filter",
               "scatter", "lines", "save", "ok", "done", "raised"}
    \/ pc = "returned" /\ messages \in {<<DpiMsg>>, <<LimitMsg>>}

C4_MagnitudeRange ==
    /\ PastMagnitude => IsMagnitudeText(args.max_magnitude) /\ max_magnitude \in 0..15
    /\ (pc = "returned" /\ messages = <<MagnitudeMsg>>) => ~IsMagnitudeText(args.max_magnitude)
    /\ (pc \in {"max_magnitude"} \cup Terminal /\ InvalidFields(args) \cap {1, 2, 3} = {}
        /\ ~IsMagnitudeText(args.max_magnitude))
           => pc \in {"max_magnitude", "returned"}

C4_Witness ==
    /\ pc = "dpi" /\ args.max_magnitude = <<"1", "5">> /\ max_magnitude = 15

\* the drawing of the call: the artists on its figure, read from the figure
\* while it is open and from the written image afterwards
Image == files[args.output][1]
Drawing ==
    IF pc \in {"ok", "done"} THEN Image.figure.artists
    ELSE figures[Len(figures)].artists
HasDrawing == pc \in {"lines", "save", "ok", "done"}

\* the catalog stars not fainter than max_magnitude, read off the catalog
NotFainter(m) ==
    {i \in DOMAIN catalog.stars :
        /\ catalog.stars[i].magnitude # NaN
        /\ ~(catalog.stars[i].magnitude[1] > 10 * m)}

\* C5: the points drawn are exactly the catalog stars with magnitude <=
\* max_magnitude, the bound included, and a larger max_magnitude never keeps
\* fewer stars.
C5_FilterExactAndMonotonic ==
    /\ HasDrawing =>
          /\ Drawing[1].kind = "scatter"
          /\ DOMAIN Drawing[1].xy = NotFainter(max_magnitude)
          /\ bright_stars = NotFainter(max_magnitude)
    /\ loaded =>
          \A m1 \in MinMagnitude..MaxMagnitude : \A m2 \in m1..MaxMagnitude :
              Bright(stars, m1) \subseteq Bright(stars, m2)

C5_Witness ==
    /\ pc = "done"
    /\ \E i \in bright_stars : stars[i].magnitude[1] = 10 * max_magnitude
    /\ \E i \in DOMAIN stars : i \notin bright_stars /\ stars[i].magnitude # NaN
    /\ DOMAIN Drawing[1].xy = bright_stars

SizesComputed == pc \in {"scatter", "lines", "save", "ok", "done"}
WithinLimit == \A i \in bright_stars : DecLE(marker_size[i], DecOfInt(star_limit))
NonIncreasing ==
    \A i \in bright_stars : \A j \in bright_stars :
        stars[i].magnitude[1] <= stars[j].magnitude[1] => DecLE(marker_size[j], marker_size[i])

\* C6 as claimed: for every star_scaling, zero and negative included, the
\* marker size does not increase with magnitude and never exceeds
\* star_size_limit.
C6_AnyScaling == SizesComputed => NonIncreasing /\ WithinLimit

\* C6: the marker size never exceeds star_size_limit, and for star_scaling >= 0
\* it does not increase with magnitude.
C6_NonNegativeScaling ==
    SizesComputed => /\ WithinLimit
                     /\ star_scaling >= 0 => NonIncreasing
                     /\ HasDrawing => Drawing[1].s = marker_size

C6_Witness ==
    /\ pc = "done" /\ star_scaling > 0
    /\ \E i \in bright_stars : \E j \in bright_stars :
          /\ stars[i].magnitude[1] < stars[j].magnitude[1]
          /\ marker_size[i] = DecOfInt(star_limit)
          /\ ~DecLE(marker_size[i], marker_size[j])

CatalogEdges == Flatten(catalog.constellations)
Position(i) ==
    <<ProjectX(catalog.stars[i].ra, long, utc_dt), ProjectY(catalog.stars[i].dec, lat)>>

\* C7: with constellations requested the drawing holds one segment per
\* catalog edge, in order, between the projected positions of its two stars in
\* the whole catalog, whether the magnitude filter kept them or not; without,
\* the drawing holds no segment.
C7_SegmentsPerEdge ==
    pc \in {"save", "ok", "done"} =>
        IF args.use_constellations
        THEN /\ Len(Drawing) = 2 /\ Drawing[2].kind = "lines"
             /\ Drawing[2].segments =
                    [k \in 1..Len(CatalogEdges) |->
                        <<Position(CatalogEdges[k][1]), Position(CatalogEdges[k][2])>>]
        ELSE Len(Drawing) = 1 /\ Drawing[1].kind = "scatter"

C7_Witness ==
    /\ pc = "done" /\ args.use_constellations
    /\ Len(Drawing[2].segments) = Len(CatalogEdges)
    /\ \E k \in 1..Len(CatalogEdges) :
          /\ CatalogEdges[k][1] \in bright_stars
          /\ CatalogEdges[k][2] \notin bright_stars
          /\ Drawing[2].segments[k][1] # Drawing[2].segments[k][2]

\* every input of the call is valid: the numeric texts, a time that resolves
\* to an instant at the coordinate, a writable output path, an intact catalog
InputsValid ==
    /\ InvalidFields(args) = {}
    /\ ResolveUtc(args.time, ParseFloat(args.long).val, ParseFloat(args.lat).val).ok
    /\ args.output \in Writable
    /\ Intact(catalog)

\* C9: with valid inputs and no catalog star of magnitude <= max_magnitude the
\* build neither stops with an error nor raises: it is at a statement of the
\* handler until it is done, draws an empty set of points, writes the file and shows the confirmation.
C9_EmptyFilterCompletes ==
    (pc # "idle" /\ InputsValid /\ NotFainter(ParseInt(args.max_magnitude).val) = {}) =>
        /\ pc \notin {"raised", "returned"}
        /\ pc \in {"lat", "long", "star_scaling", "max_magnitude", "dpi", "star_limit", "load",
                  "time", "project", "edges", "filter", "scatter", "lines", "save", "ok", "done"}
        /\ pc = "done" => /\ files[args.output] # <<>>
                          /\ Image.figure.artists[1].xy = EmptyTable
                          /\ messages = <<DoneMsg>>

C9_Witness ==
    /\ pc = "done" /\ bright_stars = {} /\ files[args.output] # <<>>
    /\ Image.figure.artists[1].xy = EmptyTable /\ messages = <<DoneMsg>>

\* C8: a build draws what the last build with the same arguments drew, and the
\* table it loads carries no x/y column of an earlier build.
C8_RepeatedBuildSameDrawing ==
    /\ (pc = "save" /\ prev # <<>> /\ prev[1].args = args) => Drawing = prev[1].artists
    /\ pc \in {"time", "project"} =>
          \A i \in DOMAIN stars : DOMAIN stars[i] = {"ra", "dec", "magnitude"}

C8_Witness ==
    /\ pc = "save" /\ calls = 2 /\ prev # <<>> /\ prev[1].args = args
    /\ args.use_constellations /\ Len(Drawing) = 2 /\ Drawing = prev[1].artists

\* C2 as claimed: a build that fails after validation shows exactly one message
\* and leaves no output file.
C2_FailureShowsOneMessage ==
    pc = "raised" => Len(messages) = 1 /\ files[args.output] = <<>>

\* C3 as claimed: the image is saved at the dpi the user asked for.
C3_SavedAtRequestedDpi ==
    pc \in {"ok", "done"} => Image.dpi = dpi

\* C10 as claimed: without constellations the edges do not matter, so a build
\* can only fail for its time, its coordinate or its output path.
C10_EdgesIrrelevantWithoutConstellations ==
    (~args.use_constellations /\ pc = "raised") =>
        \/ ~ResolveUtc(args.time, long, lat).ok
        \/ args.output \notin Writable

====
